---- MODULE Spec2Model ----
(***************************************************************************)
(* Model of scripts/one_shot_prompt_generator.py: the question catalog,    *)
(* normalize, choose_keyword_questions, build_question_set, ask_questions, *)
(* compose_prompt and main.                                                *)
(*                                                                         *)
(* Text is modelled character by character: a Python str is a sequence of  *)
(* one-character strings, so that strip, re.sub, lower, the substring test *)
(* and the f-string formatting are computed and not assumed.  The prompts  *)
(* and hints of the catalog, and the static sections of the composed       *)
(* document, are only ever printed and are kept as atomic strings.         *)
(***************************************************************************)
EXTENDS Integers, Sequences, FiniteSets, TLC

VARIABLES
    \* ---- one run of main ----
    argv_summary,       \* args.summary, as typed
    argv_answers_json,  \* args.answers_json: [given, text]
    stdin,              \* the lines of standard input not yet read
    consumed,           \* the lines input() has returned, in order
    pc,                 \* position in main / ask_questions
    summary,            \* main's summary
    questions,          \* main's questions
    answers,            \* main's answers (a dict, in insertion order)
    final_answers,      \* main's final_answers (a dict, in insertion order)
    qi,                 \* ask_questions: the question the loop is at (from 1)
    stdout,             \* what has been printed, in order
    status,             \* how the process ended
    \* ---- normalize applied to an arbitrary text ----
    n_text, n_once, n_twice, n_pc,
    \* ---- build_question_set applied to an arbitrary summary ----
    q_summary, q_result, q_pc

main_vars == <<argv_summary, argv_answers_json, stdin, consumed, pc, summary,
               questions, answers, final_answers, qi, stdout, status>>
norm_vars == <<n_text, n_once, n_twice, n_pc>>
quest_vars == <<q_summary, q_result, q_pc>>
vars == <<main_vars, norm_vars, quest_vars>>

-----------------------------------------------------------------------------
(* Bounds of the model.                                                    *)

\* Longest text normalize is applied to on its own.
MaxLen == 5
\* Most fragments a summary handed to build_question_set is made of.
MaxFragments == 4
\* Most key/value members of a generated --answers-json object.
MaxPairs == 2
\* Longest repeating pattern of typed lines on standard input.
MaxPeriod == 2
\* Length of a standard input that ends before the questions do.
ShortStdin == 3
\* Length of a standard input long enough for every question.
LongStdin == 18

-----------------------------------------------------------------------------
(* Characters and strings.                                                 *)

\* Characters matched by \s and removed by str.strip().
Whitespace == {" ", "\t", "\n"}

IsSpace(c) == c \in Whitespace

UpperCase == <<"A", "B", "C", "D", "E", "F", "G", "H", "I", "J", "K", "L", "M",
               "N", "O", "P", "Q", "R", "S", "T", "U", "V", "W", "X", "Y", "Z">>
LowerCase == <<"a", "b", "c", "d", "e", "f", "g", "h", "i", "j", "k", "l", "m",
               "n", "o", "p", "q", "r", "s", "t", "u", "v", "w", "x", "y", "z">>

\* str.lower() on one character.
lower_char(c) ==
    IF \E i \in 1..Len(UpperCase) : UpperCase[i] = c
    THEN LowerCase[CHOOSE i \in 1..Len(UpperCase) : UpperCase[i] = c]
    ELSE c

\* str.lower().
lower(s) == [i \in 1..Len(s) |-> lower_char(s[i])]

\* Python's  sub in s  for strings.
Contains(sub, s) ==
    \E i \in 0..(Len(s) - Len(sub)) : SubSeq(s, i + 1, i + Len(sub)) = sub

RECURSIVE lstrip(_)
lstrip(s) == IF s # <<>> /\ IsSpace(Head(s)) THEN lstrip(Tail(s)) ELSE s

RECURSIVE rstrip(_)
rstrip(s) ==
    IF s # <<>> /\ IsSpace(s[Len(s)]) THEN rstrip(SubSeq(s, 1, Len(s) - 1)) ELSE s

\* str.strip().
strip(s) == rstrip(lstrip(s))

\* re.sub(r"\s+", " ", s): every maximal run of whitespace becomes one space.
RECURSIVE sub_whitespace(_)
sub_whitespace(s) ==
    IF s = <<>> THEN <<>>
    ELSE IF IsSpace(Head(s)) THEN <<" ">> \o sub_whitespace(lstrip(Tail(s)))
    ELSE <<Head(s)>> \o sub_whitespace(Tail(s))

\* A slip in normalize: the substitution without the strip.
normalize_unstripped(text) == sub_whitespace(text)

\* A slip in normalize: the strip without the substitution.
normalize_strip_only(text) == strip(text)

\* normalize (lines 132-133).
normalize(text) == sub_whitespace(strip(text))

\* The default answer, "Not specified" (lines 161 and 220).
NotSpecified == <<"N", "o", "t", " ", "s", "p", "e", "c", "i", "f", "i", "e", "d">>

-----------------------------------------------------------------------------
(* The question catalog.                                                   *)

\* CORE_QUESTIONS (lines 24-55): Question(key, prompt, hint) records, in declared order.
CORE_QUESTIONS ==
    << [key    |-> <<"g", "o", "a", "l">>,
        prompt |-> "What should the final deliverable accomplish?",
        hint   |-> "Define success in one sentence."],
       [key    |-> <<"a", "u", "d", "i", "e", "n", "c", "e">>,
        prompt |-> "Who is the target user or audience?",
        hint   |-> "Be specific (e.g., junior developers, finance analysts, parents)."],
       [key    |-> <<"o", "u", "t", "p", "u", "t", "_", "f", "o", "r", "m", "a", "t">>,
        prompt |-> "What output format do you want from the AI?",
        hint   |-> "Examples: bullet list, JSON, markdown table, code files."],
       [key    |-> <<"c", "o", "n", "s", "t", "r", "a", "i", "n", "t", "s">>,
        prompt |-> "What hard constraints must be followed?",
        hint   |-> "Include time, budget, stack, legal, style, or platform limits."],
       [key    |-> <<"q", "u", "a", "l", "i", "t", "y", "_", "b", "a", "r">>,
        prompt |-> "How should quality be measured?",
        hint   |-> "Define acceptance criteria or test expectations."],
       [key    |-> <<"n", "o", "n", "_", "g", "o", "a", "l", "s">>,
        prompt |-> "What should explicitly NOT be included?",
        hint   |-> "List boundaries to avoid scope creep."] >>

\* EXTRA_QUESTIONS (lines 57-78): Question(key, prompt, hint) records, in declared order.
EXTRA_QUESTIONS ==
    << [key    |-> <<"d", "a", "t", "a", "_", "i", "n", "p", "u", "t", "s">>,
        prompt |-> "What inputs/data should the solution use?",
        hint   |-> "Mention sources, schema, sample records, or allowed assumptions."],
       [key    |-> <<"e", "d", "g", "e", "_", "c", "a", "s", "e", "s">>,
        prompt |-> "What edge cases or failure modes must be handled?",
        hint   |-> "Think null values, outages, security, scaling, ambiguous user input."],
       [key    |-> <<"t", "o", "n", "e">>,
        prompt |-> "What tone/style should the response use?",
        hint   |-> "Examples: concise technical, friendly coach, executive summary."],
       [key    |-> <<"e", "x", "a", "m", "p", "l", "e", "s">>,
        prompt |-> "Do you have examples of ideal output?",
        hint   |-> "Optional but high-leverage."] >>

\* KEYWORDS (lines 81-86): a dict, iterated in insertion order; each entry is
\* keyword -> ordered list of supplemental question keys.
KEYWORDS ==
    << [keyword |-> <<"w", "e", "b">>,
        keys    |-> << <<"u", "i", "_", "f", "r", "a", "m", "e", "w", "o", "r", "k">>,
                     <<"d", "e", "p", "l", "o", "y", "m", "e", "n", "t", "_", "t", "a", "r", "g", "e", "t">> >>],
       [keyword |-> <<"a", "p", "i">>,
        keys    |-> << <<"a", "p", "i", "_", "s", "t", "y", "l", "e">>,
                     <<"a", "u", "t", "h", "_", "r", "e", "q", "u", "i", "r", "e", "m", "e", "n", "t", "s">> >>],
       [keyword |-> <<"d", "a", "t", "a">>,
        keys    |-> << <<"d", "a", "t", "a", "_", "v", "o", "l", "u", "m", "e">>,
                     <<"p", "r", "i", "v", "a", "c", "y", "_", "r", "e", "q", "u", "i", "r", "e", "m", "e", "n", "t", "s">> >>],
       [keyword |-> <<"a", "g", "e", "n", "t">>,
        keys    |-> << <<"t", "o", "o", "l", "_", "a", "c", "c", "e", "s", "s">>,
                     <<"m", "e", "m", "o", "r", "y", "_", "s", "t", "r", "a", "t", "e", "g", "y">> >>] >>

\* KEYWORD_QUESTIONS (lines 88-129): registry key -> Question; kept as a list of
\* [name, question] entries, looked up by name.
KEYWORD_QUESTIONS ==
    << [name |-> <<"u", "i", "_", "f", "r", "a", "m", "e", "w", "o", "r", "k">>,
        question |->
          [key    |-> <<"u", "i", "_", "f", "r", "a", "m", "e", "w", "o", "r", "k">>,
           prompt |-> "Which UI framework or frontend stack should be used?",
           hint   |-> "E.g., React, Vue, Svelte, plain HTML/CSS."]],
       [name |-> <<"d", "e", "p", "l", "o", "y", "m", "e", "n", "t", "_", "t", "a", "r", "g", "e", "t">>,
        question |->
          [key    |-> <<"d", "e", "p", "l", "o", "y", "m", "e", "n", "t", "_", "t", "a", "r", "g", "e", "t">>,
           prompt |-> "Where will this run in production?",
           hint   |-> "E.g., Vercel, AWS Lambda, on-prem, local desktop."]],
       [name |-> <<"a", "p", "i", "_", "s", "t", "y", "l", "e">>,
        question |->
          [key    |-> <<"a", "p", "i", "_", "s", "t", "y", "l", "e">>,
           prompt |-> "What API style is required?",
           hint   |-> "REST, GraphQL, gRPC, webhook-first, etc."]],
       [name |-> <<"a", "u", "t", "h", "_", "r", "e", "q", "u", "i", "r", "e", "m", "e", "n", "t", "s">>,
        question |->
          [key    |-> <<"a", "u", "t", "h", "_", "r", "e", "q", "u", "i", "r", "e", "m", "e", "n", "t", "s">>,
           prompt |-> "What authentication/authorization requirements exist?",
           hint   |-> "OAuth, API keys, RBAC, SSO, public/no auth."]],
       [name |-> <<"d", "a", "t", "a", "_", "v", "o", "l", "u", "m", "e">>,
        question |->
          [key    |-> <<"d", "a", "t", "a", "_", "v", "o", "l", "u", "m", "e">>,
           prompt |-> "What data scale should the system handle?",
           hint   |-> "Approx rows/events/users and expected growth."]],
       [name |-> <<"p", "r", "i", "v", "a", "c", "y", "_", "r", "e", "q", "u", "i", "r", "e", "m", "e", "n", "t", "s">>,
        question |->
          [key    |-> <<"p", "r", "i", "v", "a", "c", "y", "_", "r", "e", "q", "u", "i", "r", "e", "m", "e", "n", "t", "s">>,
           prompt |-> "Any compliance or privacy requirements?",
           hint   |-> "PII handling, GDPR, HIPAA, retention limits, audit trails."]],
       [name |-> <<"t", "o", "o", "l", "_", "a", "c", "c", "e", "s", "s">>,
        question |->
          [key    |-> <<"t", "o", "o", "l", "_", "a", "c", "c", "e", "s", "s">>,
           prompt |-> "What tools can the agent call?",
           hint   |-> "Browser, filesystem, code interpreter, internal APIs, none."]],
       [name |-> <<"m", "e", "m", "o", "r", "y", "_", "s", "t", "r", "a", "t", "e", "g", "y">>,
        question |->
          [key    |-> <<"m", "e", "m", "o", "r", "y", "_", "s", "t", "r", "a", "t", "e", "g", "y">>,
           prompt |-> "Should the agent maintain memory between sessions?",
           hint   |-> "No memory, short-term only, long-term profile, vector DB, etc."]] >>

-----------------------------------------------------------------------------
(* Question selection.                                                     *)

\* A slip in the registry: the entry "data_volume" holds a Question whose key is
\* "data_inputs", the key of an extra question.
RegistryLookup_miskeyed(key) ==
    LET i == CHOOSE j \in 1..Len(KEYWORD_QUESTIONS) : KEYWORD_QUESTIONS[j].name = key
        q == KEYWORD_QUESTIONS[i].question
    IN  IF key = <<"d", "a", "t", "a", "_", "v", "o", "l", "u", "m", "e">>
        THEN [q EXCEPT !.key = <<"d", "a", "t", "a", "_", "i", "n", "p", "u", "t", "s">>]
        ELSE q

\* KEYWORD_QUESTIONS[key].
RegistryLookup(key) ==
    LET i == CHOOSE j \in 1..Len(KEYWORD_QUESTIONS) : KEYWORD_QUESTIONS[j].name = key
    IN  KEYWORD_QUESTIONS[i].question

\* The first loop of choose_keyword_questions (lines 138-141): the keys of the
\* keywords found in summary_l, in table order.
RECURSIVE selected_keys(_, _)
selected_keys(summary_l, table) ==
    IF table = <<>> THEN <<>>
    ELSE (IF Contains(Head(table).keyword, summary_l) THEN Head(table).keys ELSE <<>>)
         \o selected_keys(summary_l, Tail(table))

\* The second loop of choose_keyword_questions (lines 142-147): keys already seen
\* are skipped, the others are resolved in the registry.
RECURSIVE resolve_unseen(_, _)
resolve_unseen(keys, seen) ==
    IF keys = <<>> THEN <<>>
    ELSE IF Head(keys) \in seen THEN resolve_unseen(Tail(keys), seen)
    ELSE <<RegistryLookup(Head(keys))>>
         \o resolve_unseen(Tail(keys), seen \cup {Head(keys)})

\* A slip in choose_keyword_questions: the summary is not lower-cased.
choose_keyword_questions_case_sensitive(s) ==
    resolve_unseen(selected_keys(s, KEYWORDS), {})

\* choose_keyword_questions (lines 136-148).
choose_keyword_questions(s) ==
    resolve_unseen(selected_keys(lower(s), KEYWORDS), {})

\* A slip in build_question_set: the extra questions come before the supplemental.
build_question_set_extra_first(s) ==
    CORE_QUESTIONS \o EXTRA_QUESTIONS \o choose_keyword_questions(s)

\* build_question_set (lines 151-152).
build_question_set(s) ==
    CORE_QUESTIONS \o choose_keyword_questions(s) \o EXTRA_QUESTIONS

-----------------------------------------------------------------------------
(* Python values and dicts.                                                *)

\* Python values that occur as answers.
PyStr(s) == [py |-> "str", s |-> s]
PyNone == [py |-> "None"]
PyBool(b) == [py |-> "bool", b |-> b]
PyInt(n) == [py |-> "int", n |-> n]
PyList(items) == [py |-> "list", items |-> items]
PyDict(items) == [py |-> "dict", items |-> items]

Digits == <<"0", "1", "2", "3", "4", "5", "6", "7", "8", "9">>

RECURSIVE nat_str(_)
nat_str(n) == IF n < 10 THEN <<Digits[n + 1]>> ELSE nat_str(n \div 10) \o <<Digits[(n % 10) + 1]>>

\* str(value) (line 220), for the scalar values JSON can hold.
py_str(value) ==
    CASE value.py = "str" -> value.s
      [] value.py = "None" -> <<"N", "o", "n", "e">>
      [] value.py = "bool" -> IF value.b THEN <<"T", "r", "u", "e">>
                                         ELSE <<"F", "a", "l", "s", "e">>
      [] value.py = "int" -> nat_str(value.n)

\* A dict is its items [k, v] in insertion order, keys unique.
DictHas(d, k) == \E i \in 1..Len(d) : d[i].k = k

\* d.get(k, default).
DictGet(d, k, default) ==
    IF DictHas(d, k) THEN d[CHOOSE i \in 1..Len(d) : d[i].k = k].v ELSE default

\* d[k] = v: an existing key keeps its place, a new one goes last.
DictSet(d, k, v) ==
    IF DictHas(d, k)
    THEN [i \in 1..Len(d) |-> IF d[i].k = k THEN [k |-> k, v |-> v] ELSE d[i]]
    ELSE Append(d, [k |-> k, v |-> v])

-----------------------------------------------------------------------------
(* json.loads, on a text given as its JSON tokens.                         *)

LBrace == [t |-> "{"]
RBrace == [t |-> "}"]
LBracket == [t |-> "["]
RBracket == [t |-> "]"]
Colon == [t |-> ":"]
Comma == [t |-> ","]
Blank == [t |-> "whitespace"]
JString(s) == [t |-> "string", s |-> s]
JNull == [t |-> "null"]
JTrue == [t |-> "true"]
JNumber(n) == [t |-> "number", n |-> n]

IsScalarToken(tok) == tok.t \in {"string", "null", "true", "false", "number"}

ScalarValue(tok) ==
    CASE tok.t = "string" -> PyStr(tok.s)
      [] tok.t = "null" -> PyNone
      [] tok.t = "true" -> PyBool(TRUE)
      [] tok.t = "false" -> PyBool(FALSE)
      [] tok.t = "number" -> PyInt(tok.n)

DecodeError == [ok |-> FALSE]
Decoded(value) == [ok |-> TRUE, value |-> value]

\* The members of an object after "{" or ",": string ":" scalar, then "," or "}".
\* A repeated key keeps its first place and takes the last value, as a dict does.
RECURSIVE parse_members(_, _)
parse_members(toks, acc) ==
    IF Len(toks) >= 4 /\ toks[1].t = "string" /\ toks[2] = Colon /\ IsScalarToken(toks[3])
    THEN LET acc2 == DictSet(acc, toks[1].s, ScalarValue(toks[3]))
         IN  IF toks[4] = RBrace
             THEN (IF Len(toks) = 4 THEN Decoded(PyDict(acc2)) ELSE DecodeError)
             ELSE IF toks[4] = Comma
             THEN parse_members(SubSeq(toks, 5, Len(toks)), acc2)
             ELSE DecodeError
    ELSE DecodeError

\* The elements of an array after "[" or ",": scalar, then "," or "]".
RECURSIVE parse_elements(_, _)
parse_elements(toks, acc) ==
    IF Len(toks) >= 2 /\ IsScalarToken(toks[1])
    THEN LET acc2 == Append(acc, ScalarValue(toks[1]))
         IN  IF toks[2] = RBracket
             THEN (IF Len(toks) = 2 THEN Decoded(PyList(acc2)) ELSE DecodeError)
             ELSE IF toks[2] = Comma
             THEN parse_elements(SubSeq(toks, 3, Len(toks)), acc2)
             ELSE DecodeError
    ELSE DecodeError

\* json.loads (line 211) on documents whose containers hold scalars: whitespace
\* between tokens is skipped; a scalar, an array or an object is decoded; anything
\* else raises JSONDecodeError.
json_loads(text) ==
    LET toks == SelectSeq(text, LAMBDA tok : tok # Blank)
    IN  IF toks = <<>> THEN DecodeError
        ELSE IF Len(toks) = 1 /\ IsScalarToken(toks[1]) THEN Decoded(ScalarValue(toks[1]))
        ELSE IF toks = <<LBrace, RBrace>> THEN Decoded(PyDict(<<>>))
        ELSE IF toks = <<LBracket, RBracket>> THEN Decoded(PyList(<<>>))
        ELSE IF toks[1] = LBrace THEN parse_members(Tail(toks), <<>>)
        ELSE IF toks[1] = LBracket THEN parse_elements(Tail(toks), <<>>)
        ELSE DecodeError

-----------------------------------------------------------------------------
(* Answer collection and composition.                                      *)

\* A slip in line 161: the stripped line is stored as it is.
answer_without_default(value) == value

\* Line 161: the stripped line, or the default when nothing is left of it.
answer_or_default(value) == IF value = <<>> THEN NotSpecified ELSE value

\* A slip in line 220: the value is not normalized.
final_value_unnormalized(d, key) == py_str(DictGet(d, key, PyStr(NotSpecified)))

\* One entry of final_answers (line 220):
\* normalize(str(answers.get(q.key, "Not specified"))).
final_value(d, key) == normalize(py_str(DictGet(d, key, PyStr(NotSpecified))))

\* {q.key: value for q in qs}, added to acc: a dict comprehension sets its keys in order.
RECURSIVE dict_from(_, _, _)
dict_from(qs, d, acc) ==
    IF qs = <<>> THEN acc
    ELSE dict_from(Tail(qs), d, DictSet(acc, Head(qs).key, final_value(d, Head(qs).key)))

\* A slip in line 220: the payload's own entries are kept and the questions' added.
final_answers_keep_payload(qs, d) ==
    dict_from(qs, d, [i \in 1..Len(d) |-> [k |-> d[i].k, v |-> normalize(py_str(d[i].v))]])

\* final_answers (line 220): one entry per question, in question order.
final_answers_of(qs, d) == dict_from(qs, d, <<>>)

\* f"- {k}: {v}" (line 166).
requirement_line(k, v) == <<"-", " ">> \o k \o <<":", " ">> \o v

\* "\n".join(lines).
RECURSIVE join_lines(_)
join_lines(lines) ==
    IF lines = <<>> THEN <<>>
    ELSE IF Len(lines) = 1 THEN lines[1]
    ELSE lines[1] \o <<"\n">> \o join_lines(Tail(lines))

\* context_lines (line 166), over answers.items() in order.
context_lines(d) == join_lines([i \in 1..Len(d) |-> requirement_line(d[i].k, d[i].v)])

\* compose_prompt (lines 165-188): the sections that "\n\n".join puts together.
compose_prompt(s, d) ==
    << [static |-> "You are an elite product + engineering execution assistant."],
       [static |-> "## Project Summary"],
       [text |-> s],
       [static |-> "## Clarified Requirements"],
       [text |-> context_lines(d)],
       [static |-> "## Your Task"],
       [static |-> "Produce the best possible solution for this request in one response."],
       [static |-> "### Must Do"],
       [static |-> "1. Restate the objective and constraints in a compact spec."],
       [static |-> "2. Propose an execution plan optimized for speed and quality."],
       [static |-> "3. Deliver the requested output in the required format."],
       [static |-> "4. Address edge cases, risks, and trade-offs explicitly."],
       [static |-> "5. Include validation steps/tests against the quality bar."],
       [static |-> "6. Respect non-goals and avoid unnecessary scope expansion."],
       [static |-> "### Output Requirements"],
       [static |-> "- Be concrete and implementation-ready."],
       [static |-> "- Use assumptions only when unavoidable, and label them clearly."],
       [static |-> "- If information is missing, provide a \"best default\" and explain why."],
       [static |-> "- Keep the response efficient, high-signal, and free of fluff."] >>

-----------------------------------------------------------------------------
(* What the process prints and how it ends.                                *)

\* print(...) calls, by the line that makes them.
PrintedIntro ==
    [print |-> "intro",
     text |-> "I will ask targeted questions to sharpen your brief before generating a one-shot prompt."]
PrintedPrompt(q) == [print |-> "prompt", text |-> q.prompt]
PrintedHint(q) == [print |-> "hint", text |-> q.hint]
PrintedAnswerCue == [print |-> "input", text |-> "  Answer: "]
PrintedRule == [print |-> "rule", text |-> "=" ]
PrintedTitle == [print |-> "title", text |-> "PERFECT 1-SHOT PROMPT"]
PrintedDocument(doc) == [print |-> "document", sections |-> doc]

Running == [kind |-> "running", message |-> ""]
Returned == [kind |-> "returned", message |-> ""]
\* raise SystemExit("Summary cannot be empty.") (line 205).
EmptySummary == [kind |-> "SystemExit", message |-> "Summary cannot be empty."]
\* raise SystemExit(f"Invalid JSON for --answers-json: {exc}") (line 215).
MalformedPayload == [kind |-> "SystemExit", message |-> "Invalid JSON for --answers-json: {exc}"]
\* raise ValueError(...) (line 213), which no except clause of main catches.
UncaughtValueError == [kind |-> "ValueError", message |-> "answers-json must decode to an object"]
\* input() at end of file (line 160).
UncaughtEOFError == [kind |-> "EOFError", message |-> "EOF when reading a line"]

\* The process's exit code: 0 when main returns, 1 for SystemExit(str) and for a traceback.
ExitCode(st) == IF st.kind = "returned" THEN 0 ELSE 1

\* if args.answers_json: (line 209): None and "" are both false.
answers_json_truthy(arg) == arg.given /\ arg.text # <<>>

-----------------------------------------------------------------------------
(* main (lines 201-226) and ask_questions (lines 155-162), step by step.   *)

\* Line 203.
NormalizeSummary ==
    /\ pc = "start"
    /\ summary' = normalize(argv_summary)
    /\ pc' = "check_summary"
    /\ UNCHANGED <<norm_vars, quest_vars, argv_summary, argv_answers_json, stdin, consumed, questions, answers,
                   final_answers, qi, stdout, status>>

\* Lines 204-205.
ExitEmptySummary ==
    /\ pc = "check_summary"
    /\ summary = <<>>
    /\ status' = EmptySummary
    /\ pc' = "exited"
    /\ UNCHANGED <<norm_vars, quest_vars, argv_summary, argv_answers_json, stdin, consumed, summary, questions,
                   answers, final_answers, qi, stdout>>

\* Line 207.
BuildQuestions ==
    /\ pc = "check_summary"
    /\ summary # <<>>
    /\ questions' = build_question_set(summary)
    /\ pc' = "choose_mode"
    /\ UNCHANGED <<norm_vars, quest_vars, argv_summary, argv_answers_json, stdin, consumed, summary, answers,
                   final_answers, qi, stdout, status>>

\* Lines 209-215.
LoadAnswers ==
    /\ pc = "choose_mode"
    /\ answers_json_truthy(argv_answers_json)
    /\ LET r == json_loads(argv_answers_json.text)
       IN  \/ /\ ~r.ok
              /\ status' = MalformedPayload
              /\ pc' = "exited"
              /\ UNCHANGED answers
           \/ /\ r.ok
              /\ r.value.py # "dict"
              /\ status' = UncaughtValueError
              /\ pc' = "exited"
              /\ UNCHANGED answers
           \/ /\ r.ok
              /\ r.value.py = "dict"
              /\ answers' = r.value.items
              /\ pc' = "finalize"
              /\ UNCHANGED status
    /\ UNCHANGED <<norm_vars, quest_vars, argv_summary, argv_answers_json, stdin, consumed, summary, questions,
                   final_answers, qi, stdout>>

\* Lines 216-218 and 156: the intro, then ask_questions starts with an empty dict.
StartAsking ==
    /\ pc = "choose_mode"
    /\ ~answers_json_truthy(argv_answers_json)
    /\ stdout' = Append(stdout, PrintedIntro)
    /\ answers' = <<>>
    /\ qi' = 1
    /\ pc' = IF questions = <<>> THEN "finalize" ELSE "print_prompt"
    /\ UNCHANGED <<norm_vars, quest_vars, argv_summary, argv_answers_json, stdin, consumed, summary, questions,
                   final_answers, status>>

\* Line 158.
PrintPrompt ==
    /\ pc = "print_prompt"
    /\ stdout' = Append(stdout, PrintedPrompt(questions[qi]))
    /\ pc' = "print_hint"
    /\ UNCHANGED <<norm_vars, quest_vars, argv_summary, argv_answers_json, stdin, consumed, summary, questions,
                   answers, final_answers, qi, status>>

\* Line 159.
PrintHint ==
    /\ pc = "print_hint"
    /\ stdout' = Append(stdout, PrintedHint(questions[qi]))
    /\ pc' = "read_answer"
    /\ UNCHANGED <<norm_vars, quest_vars, argv_summary, argv_answers_json, stdin, consumed, summary, questions,
                   answers, final_answers, qi, status>>

\* Lines 160-161 (and 157, 162: the next question, or the return).
ReadAnswer ==
    /\ pc = "read_answer"
    /\ stdin # <<>>
    /\ stdout' = Append(stdout, PrintedAnswerCue)
    /\ stdin' = Tail(stdin)
    /\ consumed' = Append(consumed, Head(stdin))
    /\ answers' = DictSet(answers, questions[qi].key,
                          PyStr(answer_or_default(strip(Head(stdin)))))
    /\ qi' = qi + 1
    /\ pc' = IF qi + 1 > Len(questions) THEN "finalize" ELSE "print_prompt"
    /\ UNCHANGED <<norm_vars, quest_vars, argv_summary, argv_answers_json, summary, questions, final_answers,
                   status>>

\* Line 160 with standard input at its end: input() raises EOFError.
ReadEndOfFile ==
    /\ pc = "read_answer"
    /\ stdin = <<>>
    /\ stdout' = Append(stdout, PrintedAnswerCue)
    /\ status' = UncaughtEOFError
    /\ pc' = "exited"
    /\ UNCHANGED <<norm_vars, quest_vars, argv_summary, argv_answers_json, stdin, consumed, summary, questions,
                   answers, final_answers, qi>>

\* Line 220.
Finalize ==
    /\ pc = "finalize"
    /\ final_answers' = final_answers_of(questions, answers)
    /\ pc' = "print_result"
    /\ UNCHANGED <<norm_vars, quest_vars, argv_summary, argv_answers_json, stdin, consumed, summary, questions,
                   answers, qi, stdout, status>>

\* Lines 221-226.
PrintResult ==
    /\ pc = "print_result"
    /\ stdout' = stdout \o <<PrintedRule, PrintedTitle, PrintedRule,
                             PrintedDocument(compose_prompt(summary, final_answers))>>
    /\ status' = Returned
    /\ pc' = "exited"
    /\ UNCHANGED <<norm_vars, quest_vars, argv_summary, argv_answers_json, stdin, consumed, summary, questions,
                   answers, final_answers, qi>>

\* One step of a run of main.
Next ==
    \/ NormalizeSummary
    \/ ExitEmptySummary
    \/ BuildQuestions
    \/ LoadAnswers
    \/ StartAsking
    \/ PrintPrompt
    \/ PrintHint
    \/ ReadAnswer
    \/ ReadEndOfFile
    \/ Finalize
    \/ PrintResult

-----------------------------------------------------------------------------
(* The inputs of a run.                                                    *)

\* All texts of at most n characters over an alphabet.
Texts(alphabet, n) == UNION {[1..k -> alphabet] : k \in 0..n}

\* Summaries given on the command line: empty, blank, with and without keywords.
MainSummaries ==
    { <<>>,
      <<" ", "\t", " ">>,
      <<"p", "l", "a", "n">>,
      <<" ", "W", "e", "b", " ", "\n", "a", "p", "p", " ">>,
      <<"d", "a", "t", "a", " ", "A", "P", "I">> }

Key_goal == <<"g", "o", "a", "l">>
Key_ui_framework == <<"u", "i", "_", "f", "r", "a", "m", "e", "w", "o", "r", "k">>
Key_color == <<"c", "o", "l", "o", "r">>

\* Keys of a generated payload: a core key, a supplemental key, a key of no question.
PayloadKeys == {Key_goal, Key_ui_framework, Key_color}

\* Values of a generated payload.
PayloadValues ==
    { JString(<<>>),
      JString(<<" ", "\t">>),
      JString(<<" ", "a", " ", "\n", "b">>),
      JNull,
      JNumber(7) }

RECURSIVE members_text(_)
members_text(ms) ==
    IF ms = <<>> THEN <<>>
    ELSE <<JString(ms[1][1]), Colon, ms[1][2]>>
         \o (IF Len(ms) = 1 THEN <<>> ELSE <<Comma>> \o members_text(Tail(ms)))

\* The text of a JSON object with the given members.
object_text(ms) == <<LBrace>> \o members_text(ms) \o <<RBrace>>

\* Well-formed objects of at most MaxPairs members (keys may repeat).
ObjectPayloads ==
    {object_text(ms) : ms \in UNION {[1..k -> PayloadKeys \X PayloadValues] : k \in 0..MaxPairs}}

\* Other texts: empty, blank, truncated, arrays, scalars, malformed objects, and an
\* object written with whitespace.
OtherPayloads ==
    { <<>>,
      <<Blank>>,
      <<LBrace>>,
      <<LBracket, RBracket>>,
      <<LBracket, JString(Key_goal), Comma, JNumber(7), RBracket>>,
      <<LBracket, JNull>>,
      <<JNull>>,
      <<JTrue>>,
      <<JNumber(7)>>,
      <<JString(Key_goal)>>,
      <<LBrace, JString(Key_goal), RBrace>>,
      <<LBrace, JString(Key_goal), Colon, JNull, Comma, RBrace>>,
      <<LBrace, RBrace, RBrace>>,
      <<Blank, LBrace, Blank, JString(Key_goal), Blank, Colon, JString(<<"x">>), RBrace, Blank>> }

\* Lines typed on standard input (input() has removed the line end).
InputLines ==
    { <<>>,
      <<" ", "\t">>,
      <<" ", "a", " ", " ", "b", "\t">>,
      <<"x">> }

\* n lines repeating the pattern p.
Cycle(p, n) == [i \in 1..n |-> p[((i - 1) % Len(p)) + 1]]

StdinPatterns == UNION {[1..k -> InputLines] : k \in 1..MaxPeriod}

\* Standard input of a run without a usable --answers-json: it may end early.
InteractiveStdins == {Cycle(p, n) : p \in StdinPatterns, n \in {ShortStdin, LongStdin}}

\* Standard input of a run with --answers-json: lines are waiting.
BatchStdins == {Cycle(<<<<"x">>>>, ShortStdin)}

NoAnswersJson == [given |-> FALSE, text |-> <<>>]
AnswersJson(text) == [given |-> TRUE, text |-> text]

-----------------------------------------------------------------------------
(* Specifications.                                                         *)

MainIdle ==
    /\ argv_summary = <<>>
    /\ argv_answers_json = NoAnswersJson
    /\ stdin = <<>>
    /\ consumed = <<>>
    /\ pc = "idle"
    /\ summary = <<>>
    /\ questions = <<>>
    /\ answers = <<>>
    /\ final_answers = <<>>
    /\ qi = 0
    /\ stdout = <<>>
    /\ status = Running

NormalizeIdle ==
    /\ n_text = <<>>
    /\ n_once = <<>>
    /\ n_twice = <<>>
    /\ n_pc = "idle"

QuestionsIdle ==
    /\ q_summary = <<>>
    /\ q_result = <<>>
    /\ q_pc = "idle"

\* The state when main is entered, parse_args done.
Init ==
    /\ argv_summary \in MainSummaries
    /\ argv_answers_json \in
         {NoAnswersJson} \cup {AnswersJson(t) : t \in ObjectPayloads \cup OtherPayloads}
    /\ stdin \in (IF answers_json_truthy(argv_answers_json)
                  THEN BatchStdins ELSE InteractiveStdins)
    /\ consumed = <<>>
    /\ pc = "start"
    /\ summary = <<>>
    /\ questions = <<>>
    /\ answers = <<>>
    /\ final_answers = <<>>
    /\ qi = 0
    /\ stdout = <<>>
    /\ status = Running
    /\ NormalizeIdle
    /\ QuestionsIdle

Spec == Init /\ [][Next]_vars

\* normalize on its own: every text of at most MaxLen characters.
NormalizeAlphabet == {" ", "\t", "\n", "a", "b"}

InitNormalize ==
    /\ n_text \in Texts(NormalizeAlphabet, MaxLen)
    /\ n_once = <<>>
    /\ n_twice = <<>>
    /\ n_pc = "text"
    /\ MainIdle
    /\ QuestionsIdle

NormalizeOnce ==
    /\ n_pc = "text"
    /\ n_once' = normalize(n_text)
    /\ n_pc' = "once"
    /\ UNCHANGED <<n_text, n_twice, main_vars, quest_vars>>

NormalizeTwice ==
    /\ n_pc = "once"
    /\ n_twice' = normalize(n_once)
    /\ n_pc' = "twice"
    /\ UNCHANGED <<n_text, n_once, main_vars, quest_vars>>

NextNormalize ==
    \/ NormalizeOnce
    \/ NormalizeTwice

SpecNormalize == InitNormalize /\ [][NextNormalize]_vars

\* build_question_set on its own: every summary made of at most MaxFragments
\* fragments, which spell the keywords in either case, split and overlapping.
Fragments ==
    { <<"w", "e", "b">>,
      <<"W", "e">>,
      <<"b">>,
      <<"A", "P", "I">>,
      <<"d", "a", "t">>,
      <<"a">>,
      <<"a", "g", "e", "n", "t">>,
      <<" ">> }

RECURSIVE concat(_)
concat(parts) == IF parts = <<>> THEN <<>> ELSE Head(parts) \o concat(Tail(parts))

FragmentSummaries == {concat(parts) : parts \in Texts(Fragments, MaxFragments)}

InitQuestions ==
    /\ q_summary \in FragmentSummaries
    /\ q_result = <<>>
    /\ q_pc = "summary"
    /\ MainIdle
    /\ NormalizeIdle

BuildQuestionSet ==
    /\ q_pc = "summary"
    /\ q_result' = build_question_set(q_summary)
    /\ q_pc' = "built"
    /\ UNCHANGED <<q_summary, main_vars, norm_vars>>

NextQuestions == BuildQuestionSet

SpecQuestions == InitQuestions /\ [][NextQuestions]_vars

-----------------------------------------------------------------------------
(* Vocabulary of the properties.                                           *)

\* A text of whitespace only (the empty text included).
BlankText(s) == \A i \in 1..Len(s) : s[i] \in Whitespace

\* No whitespace at either end and no two whitespace characters in a row.
TrimmedAndCollapsed(s) ==
    /\ s # <<>> => (s[1] \notin Whitespace /\ s[Len(s)] \notin Whitespace)
    /\ \A i \in 1..(Len(s) - 1) : ~(s[i] \in Whitespace /\ s[i + 1] \in Whitespace)

\* The upper-case form of a lower-case letter of a keyword.
UpperOf(c) == UpperCase[CHOOSE i \in 1..Len(LowerCase) : LowerCase[i] = c]

\* kw (lower case) occurs in s, each letter in either case.
OccursIgnoringCase(kw, s) ==
    \E i \in 0..(Len(s) - Len(kw)) :
        \A j \in 1..Len(kw) : s[i + j] \in {kw[j], UpperOf(kw[j])}

\* The question of the registry whose own key is key.
SupplementalQuestion(key) ==
    LET i == CHOOSE j \in 1..Len(KEYWORD_QUESTIONS) : KEYWORD_QUESTIONS[j].question.key = key
    IN  KEYWORD_QUESTIONS[i].question

Kw_web == <<"w", "e", "b">>
Kw_api == <<"a", "p", "i">>
Kw_data == <<"d", "a", "t", "a">>
Kw_agent == <<"a", "g", "e", "n", "t">>

\* The supplemental questions a summary calls for, keyword by keyword.
ExpectedSupplemental(s) ==
    (IF OccursIgnoringCase(Kw_web, s)
     THEN <<SupplementalQuestion(Key_ui_framework),
            SupplementalQuestion(<<"d", "e", "p", "l", "o", "y", "m", "e", "n", "t", "_",
                                   "t", "a", "r", "g", "e", "t">>)>>
     ELSE <<>>)
    \o (IF OccursIgnoringCase(Kw_api, s)
        THEN <<SupplementalQuestion(<<"a", "p", "i", "_", "s", "t", "y", "l", "e">>),
               SupplementalQuestion(<<"a", "u", "t", "h", "_", "r", "e", "q", "u", "i", "r",
                                      "e", "m", "e", "n", "t", "s">>)>>
        ELSE <<>>)
    \o (IF OccursIgnoringCase(Kw_data, s)
        THEN <<SupplementalQuestion(<<"d", "a", "t", "a", "_", "v", "o", "l", "u", "m", "e">>),
               SupplementalQuestion(<<"p", "r", "i", "v", "a", "c", "y", "_", "r", "e", "q",
                                      "u", "i", "r", "e", "m", "e", "n", "t", "s">>)>>
        ELSE <<>>)
    \o (IF OccursIgnoringCase(Kw_agent, s)
        THEN <<SupplementalQuestion(<<"t", "o", "o", "l", "_", "a", "c", "c", "e", "s", "s">>),
               SupplementalQuestion(<<"m", "e", "m", "o", "r", "y", "_", "s", "t", "r", "a",
                                      "t", "e", "g", "y">>)>>
        ELSE <<>>)

\* How many questions of qs have the key.
KeyCount(qs, key) == Cardinality({i \in 1..Len(qs) : qs[i].key = key})

-----------------------------------------------------------------------------
(* Properties of normalize.                                                *)

\* C9: normalize is idempotent, normalize(normalize(s)) = normalize(s), and its
\* result has no leading or trailing whitespace and no run of two or more
\* whitespace characters.
C9_NormalizeIdempotent ==
    /\ n_pc \in {"once", "twice"} => TrimmedAndCollapsed(n_once)
    /\ n_pc = "twice" => n_twice = n_once

\* C9's case: a text with leading whitespace and a run of whitespace between two
\* letters, normalized twice.
C9_Witness ==
    /\ n_pc = "twice"
    /\ Len(n_text) >= 5
    /\ n_text[1] \in Whitespace
    /\ \E i \in 1..(Len(n_text) - 3) :
           /\ n_text[i] \notin Whitespace
           /\ n_text[i + 1] \in Whitespace
           /\ n_text[i + 2] \in Whitespace
           /\ n_text[i + 3] \notin Whitespace
    /\ Len(n_once) = 3
    /\ n_twice = n_once

-----------------------------------------------------------------------------
(* Properties of build_question_set.                                       *)

\* C5: build_question_set returns the six core questions in declared order, then
\* the supplemental questions of exactly the keywords (web, api, data, agent)
\* that occur in the summary ignoring case, in keyword-table order and declared
\* key order, then the four extra questions; with no keyword it is core then
\* extra, and with "web" the two web questions occur once each, after the core
\* questions and before the extra ones.
C5_QuestionSetShape ==
    q_pc = "built" =>
        /\ q_result = CORE_QUESTIONS \o ExpectedSupplemental(q_summary) \o EXTRA_QUESTIONS
        /\ Len(CORE_QUESTIONS) = 6
        /\ Len(EXTRA_QUESTIONS) = 4
        /\ (\A kw \in {Kw_web, Kw_api, Kw_data, Kw_agent} : ~OccursIgnoringCase(kw, q_summary))
               => q_result = CORE_QUESTIONS \o EXTRA_QUESTIONS
        /\ OccursIgnoringCase(Kw_web, q_summary) =>
               /\ KeyCount(q_result, Key_ui_framework) = 1
               /\ KeyCount(q_result, q_result[8].key) = 1
               /\ q_result[7].key = Key_ui_framework
               /\ q_result[8].prompt = "Where will this run in production?"

\* C5's case: all four keywords occur, one of them in upper case only.
C5_Witness ==
    /\ q_pc = "built"
    /\ Len(q_result) = 18
    /\ ~Contains(Kw_api, q_summary)
    /\ OccursIgnoringCase(Kw_api, q_summary)

\* C6: no question key occurs twice in the resolved question sequence (core,
\* supplemental and extra together), whatever keywords the summary matches,
\* and each key of a matched keyword is there exactly once.
C6_KeysUnique ==
    q_pc = "built" =>
        /\ \A i, j \in 1..Len(q_result) : q_result[i].key = q_result[j].key => i = j
        /\ \A n \in 1..Len(KEYWORDS) :
               OccursIgnoringCase(KEYWORDS[n].keyword, q_summary) =>
                   \A m \in 1..Len(KEYWORDS[n].keys) :
                       KeyCount(q_result, KEYWORDS[n].keys[m]) = 1

\* C6's case: a summary in which two keywords overlap ("datagent") and a third occurs.
C6_Witness ==
    /\ q_pc = "built"
    /\ Contains(<<"d", "a", "t", "a", "g", "e", "n", "t">>, q_summary)
    /\ OccursIgnoringCase(Kw_web, q_summary)
    /\ Len(q_result) = 16

-----------------------------------------------------------------------------
(* Properties of a run of main.                                            *)

\* Something of the given kind has been printed.
Printed(kind) == \E i \in 1..Len(stdout) : stdout[i].print = kind

\* What has been printed of the given kind, in order.
PrintedOf(kind) == SelectSeq(stdout, LAMBDA e : e.print = kind)

\* The payload decodes to a key-value mapping.
ParsesAsMapping(text) ==
    LET r == json_loads(text) IN r.ok /\ r.value.py = "dict"

\* The tokens of the payload, whitespace aside.
PayloadTokens == SelectSeq(argv_answers_json.text, LAMBDA tok : tok # Blank)

\* Where the payload states a value for the key.
KeyPositions(key) ==
    {i \in 1..(Len(PayloadTokens) - 2) :
        PayloadTokens[i] = JString(key) /\ PayloadTokens[i + 1] = Colon}

\* The value the payload states for the key (the last one, if it states several),
\* as text, normalized.
StatedValue(key) ==
    LET i == CHOOSE p \in KeyPositions(key) : \A o \in KeyPositions(key) : o <= p
    IN  normalize(py_str(ScalarValue(PayloadTokens[i + 2])))

\* The line "- <key>: <value>" the batch payload calls for.
ExpectedLine(key) ==
    <<"-", " ">> \o key \o <<":", " ">>
    \o (IF KeyPositions(key) = {} THEN NotSpecified ELSE StatedValue(key))

\* The text at its line breaks.
RECURSIVE split_lines(_)
split_lines(s) ==
    IF \A i \in 1..Len(s) : s[i] # "\n" THEN <<s>>
    ELSE LET n == CHOOSE p \in 1..Len(s) :
                      s[p] = "\n" /\ \A o \in 1..(p - 1) : s[o] # "\n"
         IN  <<SubSeq(s, 1, n - 1)>> \o split_lines(SubSeq(s, n + 1, Len(s)))

\* The lines of the "Clarified Requirements" section of the printed document.
RequirementLines ==
    LET doc == stdout[Len(stdout)].sections
        i == CHOOSE j \in 1..Len(doc) : doc[j] = [static |-> "## Clarified Requirements"]
    IN  split_lines(doc[i + 1].text)

\* The key of a line "- <key>: <value>".
KeyOfLine(line) ==
    LET c == CHOOSE p \in 1..Len(line) :
                 line[p] = ":" /\ \A o \in 1..(p - 1) : line[o] # ":"
    IN  SubSeq(line, 3, c - 1)

\* The keys of the resolved questions.
QuestionKeys == {questions[i].key : i \in 1..Len(questions)}

\* C1: when --answers-json is given and does not parse into a key-value mapping
\* (not JSON, or JSON that is not an object), main ends with the MalformedPayload
\* error and prints neither the banner nor any of the composed prompt.
C1_MalformedPayloadFails ==
    (/\ argv_answers_json.given
     /\ ~ParsesAsMapping(argv_answers_json.text)
     /\ ~BlankText(argv_summary))
    => /\ ~Printed("rule")
       /\ ~Printed("title")
       /\ ~Printed("document")
       /\ pc = "exited" => status = MalformedPayload

\* C2: after answer collection, in either mode, final_answers has for every
\* question key of the resolved sequence a normalized, non-empty value (a batch
\* value that is empty after normalization being replaced by "Not specified").
C2_AnswersNormalizedNonEmpty ==
    (pc = "print_result" \/ status = Returned)
    => /\ Len(final_answers) = Len(questions)
       /\ \A i \in 1..Len(final_answers) :
              /\ final_answers[i].k = questions[i].key
              /\ final_answers[i].v # <<>>
              /\ TrimmedAndCollapsed(final_answers[i].v)

\* C3: with --answers-json given, whatever its content, no question or hint is
\* printed and no line of standard input is read.
C3_PayloadSelectsMode ==
    argv_answers_json.given
    => /\ consumed = <<>>
       /\ ~Printed("prompt")
       /\ ~Printed("hint")
       /\ ~Printed("input")

\* C4: a summary that is empty or blank makes main end with the EmptySummary
\* error, exit code non-zero, before any question is selected or printed, any
\* answer read or decoded, or anything printed.
C4_EmptySummaryFailsFirst ==
    (BlankText(argv_summary) /\ pc # "start")
    => /\ pc \in {"check_summary", "exited"}
       /\ questions = <<>>
       /\ answers = <<>>
       /\ final_answers = <<>>
       /\ consumed = <<>>
       /\ stdout = <<>>
       /\ pc = "exited" => (status = EmptySummary /\ ExitCode(status) # 0)

\* C4's case: a blank, non-empty summary, with a well-formed payload and lines
\* waiting on standard input; the run has ended.
C4_Witness ==
    /\ argv_summary # <<>>
    /\ BlankText(argv_summary)
    /\ ParsesAsMapping(argv_answers_json.text)
    /\ stdin # <<>>
    /\ pc = "exited"
    /\ status = EmptySummary

\* C7: in batch mode with a mapping that lacks some question keys the run
\* succeeds, and the "Clarified Requirements" section is exactly one line
\* "- <key>: <value>" per resolved question, in order, the value being
\* "Not specified" for a key the payload lacks and the normalized payload value
\* otherwise.
C7_MissingKeysDefaulted ==
    (/\ ParsesAsMapping(argv_answers_json.text)
     /\ ~BlankText(argv_summary)
     /\ \E k \in QuestionKeys : KeyPositions(k) = {}
     /\ pc = "exited")
    => /\ status = Returned
       /\ ExitCode(status) = 0
       /\ Printed("document")
       /\ RequirementLines = [i \in 1..Len(questions) |-> ExpectedLine(questions[i].key)]

\* C7's case: the payload gives "goal" a value that needs normalizing and says
\* nothing of "ui_framework", which the summary's "web" brings in.
C7_Witness ==
    /\ pc = "exited"
    /\ status = Returned
    /\ Key_ui_framework \in QuestionKeys
    /\ KeyPositions(Key_ui_framework) = {}
    /\ KeyPositions(Key_goal) # {}
    /\ StatedValue(Key_goal) = <<"a", " ", "b">>
    /\ Len(RequirementLines) = 12

\* C8: in interactive mode the questions are printed in the order of the
\* resolved sequence, one line is read per question, question N+1 is not
\* printed before the answer to question N (the stripped line, or "Not
\* specified" for a blank one) is recorded, and the banner and the composed
\* prompt are printed only after the last answer is recorded.
C8_QuestionsInOrder ==
    Printed("intro") =>
        LET P == PrintedOf("prompt")
            H == PrintedOf("hint")
        IN  /\ Len(P) <= Len(questions)
            /\ \A k \in 1..Len(P) : P[k].text = questions[k].prompt
            /\ Len(H) <= Len(P)
            /\ Len(P) - Len(H) <= 1
            /\ \A k \in 1..Len(H) : H[k].text = questions[k].hint
            /\ Len(consumed) = Len(answers)
            /\ Len(P) - Len(answers) \in {0, 1}
            /\ \A k \in 1..Len(answers) :
                   /\ answers[k].k = questions[k].key
                   /\ answers[k].v = PyStr(IF BlankText(consumed[k])
                                           THEN NotSpecified ELSE strip(consumed[k]))
            /\ (Printed("rule") \/ Printed("title") \/ Printed("document"))
                   => Len(answers) = Len(questions)
            /\ status = Returned => Len(consumed) = Len(questions)

\* C8's case: an interactive run that has printed its result, in which a blank
\* line was typed and lines are left unread on standard input.
C8_Witness ==
    /\ Printed("intro")
    /\ status = Returned
    /\ Printed("document")
    /\ Len(questions) = 12
    /\ \E k \in 1..Len(consumed) : consumed[k] # <<>> /\ BlankText(consumed[k])
    /\ stdin # <<>>

\* C10: in batch mode the payload's keys that are no question's key are in
\* neither final_answers nor the composed output and cause no error: the keys of
\* the "Clarified Requirements" section are the resolved question keys.
C10_ForeignKeysIgnored ==
    (ParsesAsMapping(argv_answers_json.text) /\ ~BlankText(argv_summary))
    => /\ status \in {Running, Returned}
       /\ (pc = "print_result" \/ status = Returned)
              => {final_answers[i].k : i \in 1..Len(final_answers)} = QuestionKeys
       /\ Printed("document")
              => {KeyOfLine(RequirementLines[i]) : i \in 1..Len(RequirementLines)}
                     = QuestionKeys

\* C10's case: the payload has the key "color", no question's, and the key
\* "ui_framework", which this summary does not bring in; the result is printed.
C10_Witness ==
    /\ status = Returned
    /\ Printed("document")
    /\ KeyPositions(Key_color) # {}
    /\ KeyPositions(Key_ui_framework) # {}
    /\ Key_ui_framework \notin QuestionKeys

====
